---- MODULE Spec2Model ----
(***************************************************************************)
(* A model of simple-slideshow.                                            *)
(*                                                                         *)
(*   Part I  (SegSpec)   src/src/markdown.rs: the Slideshow iterator, the  *)
(*                       Slide Segmenter of the specification.             *)
(*   Part II (WatchSpec) src/src/main.rs: Opt::render and Opt::watch, the  *)
(*                       Build Driver and the Watch Driver.                *)
(***************************************************************************)
EXTENDS Integers, Sequences, FiniteSets, TLC

(***************************************************************************)
(* Bounds                                                                  *)
(***************************************************************************)
\* longest upstream event sequence fed to the Slideshow iterator
MaxLen == 4

\* most notifications waiting in the watcher's channel at one time
MaxQueue == 1

\* most notifications the watcher thread sends in one run of LoopSpec
MaxSent == 3

(***************************************************************************)
(* Part I: markdown.rs, struct Slideshow                                   *)
(***************************************************************************)
VARIABLES
    source,       \* the events the Parser yields for the document, in order
    parser,       \* Slideshow.parser: the events the Parser has yet to yield
    next_events,  \* Slideshow.next_events: VecDeque<Event>
    in_slide,     \* Slideshow.in_slide
    origin,       \* history: for each element of next_events, TRUE when it
                  \* was pushed by start_slide/end_slide, FALSE when forwarded
    out,          \* the items next() has returned so far (what push_html saw)
    outOrigin,    \* history: origin of each element of out
    ended         \* next() has returned None

segVars == <<source, parser, next_events, in_slide, origin, out, outOrigin, ended>>

\* Part II: main.rs
VARIABLES
    opt,       \* the Opt value of main_inner: static_dir, template, input, output_dir
    fs,        \* the file system: what each path holds
    pc,        \* where Opt::watch is: "start", "watching" (in the loop), "stopped"
    chan,      \* the mpsc channel from the watcher thread to the loop
    result,    \* the error Opt::watch returned (kind "none" while it runs)
    lastKind,  \* history: the kind of the notification handled last
    acts       \* history: the operations the last build or notification ran

watchVars == <<opt, fs, pc, chan, result, lastKind, acts>>

\* Part II, the loop of Opt::watch step by step (LoopSpec)
VARIABLES
    cur,   \* the notification rx.recv() returned and the loop is handling
           \* (a sequence of at most one)
    sent,  \* history: every notification the watcher thread has sent
    done   \* history: every notification whose arm has run to its end

loopVars == <<cur, sent, done>>

vars == <<segVars, watchVars, loopVars>>

\* pulldown_cmark::Event, reduced to a tag and its text payload
Ev(tag, text) == [tag |-> tag, text |-> text]

Rule == Ev("Rule", "")

\* Event::Html(r#"<section class="slide">"#.into())
OpenMarker == Ev("Html", "<section class=\"slide\">")

\* Event::Html(r#"</section>"#.into())
CloseMarker == Ev("Html", "</section>")

\* The events a document can produce.  Raw HTML in the document gives
\* Event::Html with any text, also with the text of the two markers.
Events ==
    { Rule, Ev("Text", "a"), Ev("Text", "b"), OpenMarker, CloseMarker }

RECURSIVE SeqsUpTo(_)
SeqsUpTo(n) ==
    IF n = 0 THEN { <<>> }
    ELSE LET shorter == SeqsUpTo(n - 1)
         IN  shorter \cup { Append(s, e) : s \in { t \in shorter : Len(t) = n - 1 }, e \in Events }

\* Option<Event>
None == [some |-> FALSE, ev |-> Ev("None", "")]
Some(e) == [some |-> TRUE, ev |-> e]

\* The fields of a Slideshow value (with the history field origin).
Slideshow(p, q, f, o) == [parser |-> p, next_events |-> q, in_slide |-> f, origin |-> o]

start_slide_unflagged(self) ==
    [self EXCEPT !.next_events = Append(@, OpenMarker),
                 !.origin = Append(@, TRUE)]

start_slide_lazy(self) == [self EXCEPT !.in_slide = TRUE]

\* fn start_slide(&mut self)
start_slide(self) ==
    [self EXCEPT !.in_slide = TRUE,
                 !.next_events = Append(@, OpenMarker),
                 !.origin = Append(@, TRUE)]

end_slide_silent(self) == [self EXCEPT !.in_slide = FALSE]

\* fn end_slide(&mut self)
end_slide(self) ==
    [self EXCEPT !.next_events = Append(@, CloseMarker),
                 !.origin = Append(@, TRUE),
                 !.in_slide = FALSE]

forward(self, event) ==
    [self EXCEPT !.next_events = Append(@, event),
                 !.origin = Append(@, FALSE)]

transform_keep_rule(self, event) ==
    IF event = Rule
    THEN forward(start_slide(IF self.in_slide THEN end_slide(self) ELSE self), event)
    ELSE forward(self, event)

transform_drop(self, event) ==
    IF event = Rule
    THEN start_slide(IF self.in_slide THEN end_slide(self) ELSE self)
    ELSE self

transform_dup(self, event) ==
    IF event = Rule
    THEN start_slide(IF self.in_slide THEN end_slide(self) ELSE self)
    ELSE forward(forward(self, event), event)

\* fn transform(&mut self, event: Event<'a>)
transform(self, event) ==
    IF event = Rule
    THEN start_slide(IF self.in_slide THEN end_slide(self) ELSE self)
    ELSE forward(self, event)

new_unopened(p) == Slideshow(p, <<>>, FALSE, <<>>)

\* fn new(parser: Parser<'a>) -> Self
new(p) == start_slide(Slideshow(p, <<>>, FALSE, <<>>))

exhausted_closing(self) ==
    IF self.in_slide
    THEN [self |-> [self EXCEPT !.in_slide = FALSE], item |-> Some(CloseMarker), synth |-> TRUE]
    ELSE [self |-> self, item |-> None, synth |-> FALSE]

\* `let event = self.parser.next()?;` when the Parser yields None
exhausted(self) == [self |-> self, item |-> None, synth |-> FALSE]

\* fn next(&mut self) -> Option<Self::Item>; synth is the origin of the item
RECURSIVE next(_)
next_upstream_first(self) ==
    IF self.parser = <<>>
    THEN exhausted(self)
    ELSE IF self.next_events # <<>>
         THEN [self  |-> [self EXCEPT !.next_events = Tail(@), !.origin = Tail(@)],
               item  |-> Some(Head(self.next_events)),
               synth |-> Head(self.origin)]
         ELSE next(transform([self EXCEPT !.parser = Tail(@)], Head(self.parser)))

next(self) ==
    IF self.next_events # <<>>
    THEN [self  |-> [self EXCEPT !.next_events = Tail(@), !.origin = Tail(@)],
          item  |-> Some(Head(self.next_events)),
          synth |-> Head(self.origin)]
    ELSE IF self.parser = <<>>
         THEN exhausted(self)
         ELSE next(transform([self EXCEPT !.parser = Tail(@)], Head(self.parser)))

Self == Slideshow(parser, next_events, in_slide, origin)

\* render(): `Slideshow::new(Parser::new_ext(&input, options))` for a document
SegInit ==
    /\ source \in SeqsUpTo(MaxLen)
    /\ LET s == new(source)
       IN  /\ parser = s.parser
           /\ next_events = s.next_events
           /\ in_slide = s.in_slide
           /\ origin = s.origin
    /\ out = <<>>
    /\ outOrigin = <<>>
    /\ ended = FALSE
    /\ opt = <<>>
    /\ fs = <<>>
    /\ pc = "off"
    /\ cur = <<>>
    /\ sent = <<>>
    /\ done = <<>>
    /\ chan = <<>>
    /\ result = <<>>
    /\ lastKind = "none"
    /\ acts = <<>>

\* one iteration of html::push_html's loop over the iterator: a call of
\* next() that returns an event
Pull ==
    /\ ~ended
    /\ LET r == next(Self)
       IN  /\ r.item.some
           /\ parser' = r.self.parser
           /\ next_events' = r.self.next_events
           /\ in_slide' = r.self.in_slide
           /\ origin' = r.self.origin
           /\ out' = Append(out, r.item.ev)
           /\ outOrigin' = Append(outOrigin, r.synth)
    /\ UNCHANGED <<source, ended, watchVars, loopVars>>

\* the call of next() that returns None and ends push_html's loop
PullNone ==
    /\ ~ended
    /\ LET r == next(Self)
       IN  /\ ~r.item.some
           /\ parser' = r.self.parser
           /\ next_events' = r.self.next_events
           /\ in_slide' = r.self.in_slide
           /\ origin' = r.self.origin
    /\ ended' = TRUE
    /\ UNCHANGED <<source, out, outOrigin, watchVars, loopVars>>

SegNext == Pull \/ PullNone

SegSpec == SegInit /\ [][SegNext]_vars

\* html::push_html keeps calling next() until it returns None
SegFairSpec == SegSpec /\ WF_vars(SegNext)

(***************************************************************************)
(* Part II: main.rs, the Build Driver and the Watch Driver                 *)
(***************************************************************************)
\* Paths are sequences of components, below a common root directory <<>>.
StaticDir == <<"static">>

StaticImg == <<"static", "img">>

StaticPng == <<"static", "img", "x.png">>

StaticTemplate == <<"static", "template.html">>

TopTemplate == <<"template.html">>

Deck == <<"deck.md">>

Notes == <<"notes.txt">>

OutDir == <<"out">>

Paths ==
    { StaticDir, StaticImg, StaticPng, StaticTemplate, TopTemplate, Deck, Notes,
      OutDir, <<"out", "img">>, <<"out", "img", "x.png">>,
      <<"out", "template.html">>, <<"out", "index.html">> }

Absent == [kind |-> "absent", data |-> <<>>]
Dir == [kind |-> "dir", data |-> <<>>]
File(data) == [kind |-> "file", data |-> data]

\* Path::starts_with: a whole-component prefix
starts_with(path, base) ==
    /\ Len(base) <= Len(path)
    /\ SubSeq(path, 1, Len(base)) = base

\* Path::strip_prefix, for a path that starts with base
strip_prefix(path, base) == SubSeq(path, Len(base) + 1, Len(path))

\* Path::join with a relative path
join(base, rel) == base \o rel

\* Path::parent
parent(path) == SubSeq(path, 1, Len(path) - 1)

\* Path::exists
exists(f, path) == path = <<>> \/ f[path].kind # "absent"

\* Path::is_dir
is_dir(f, path) == path = <<>> \/ f[path].kind = "dir"

is_file(f, path) == path # <<>> /\ f[path].kind = "file"

\* fn output_file(&self) -> PathBuf
output_file == join(opt.output_dir, <<"index.html">>)

\* Errors: the variants of CopyStaticErr, RenderError, BuildErr and WatchErr
\* with the path they carry.
Err(kind, path) == [kind |-> kind, path |-> path]

NoErr == Err("none", <<>>)

Op(name, path) == [op |-> name, path |-> path]

\* The state a fallible operation runs in: the file system, the injected
\* fault (the n-th system call fails; 0: none), the system calls made so far, the error returned by `?` (NoErr
\* while running), the operations entered and the value returned.
Ctx(f, fault) ==
    [fs |-> f, fault |-> fault, n |-> 0, err |-> NoErr, log |-> <<>>, ret |-> <<>>]

\* One system call followed by `.map_err(..)?`: it fails when the file
\* system refuses it or the injected fault hits it, and then nothing below
\* it runs.
SysCall(c, ok, f2, e) ==
    IF c.err # NoErr THEN c
    ELSE IF ~ok \/ c.n + 1 = c.fault
         THEN [c EXCEPT !.n = @ + 1, !.err = e]
         ELSE [c EXCEPT !.n = @ + 1, !.fs = f2]

Enter(c, name, path) ==
    IF c.err # NoErr THEN c ELSE [c EXCEPT !.log = Append(@, Op(name, path))]

\* fs::create_dir_all succeeds unless a file is in the way
CanCreateDirAll(f, dir) ==
    \A k \in 1..Len(dir) : ~is_file(f, SubSeq(dir, 1, k))

\* fs::create_dir_all: the directory and its missing ancestors
CreateDirAll(f, dir) ==
    [q \in DOMAIN f |->
        IF starts_with(dir, q) /\ ~exists(f, q) THEN Dir ELSE f[q]]

\* fs::copy succeeds when the source is a file and the destination can be
\* created or truncated
CanCopy(f, from, to) ==
    /\ is_file(f, from)
    /\ is_dir(f, parent(to))
    /\ ~is_dir(f, to)

\* fn copy_single_static(&self, path: PathBuf) -> Result<(), CopyStaticErr>
copy_single_static(c, path) ==
    IF c.err # NoErr THEN c
    ELSE LET c1 == Enter(c, "copy_single_static", path)
         IN  IF ~starts_with(path, opt.static_dir)
             THEN [c1 EXCEPT !.err = Err("Prefix", path)]
             ELSE LET dest == join(opt.output_dir, strip_prefix(path, opt.static_dir))
                  IN  IF is_dir(c1.fs, path)
                      THEN IF ~exists(c1.fs, dest)
                           THEN SysCall(c1, CanCreateDirAll(c1.fs, dest),
                                        CreateDirAll(c1.fs, dest), Err("CreateDir", dest))
                           ELSE c1
                      ELSE SysCall(c1, CanCopy(c1.fs, path, dest),
                                   [c1.fs EXCEPT ![dest] = c1.fs[path]],
                                   Err("Copy", path))

\* WalkDir::new(&self.static_dir): the entries below the static directory,
\* each directory before what it holds
WalkOrder == <<StaticDir, StaticImg, StaticPng, StaticTemplate>>

InWalk(f, path) == starts_with(path, opt.static_dir) /\ exists(f, path)

\* the body of copy_static's loop, for the entries left to walk
RECURSIVE copy_entries(_, _)
copy_entries(c, entries) ==
    IF entries = <<>> \/ c.err # NoErr THEN c
    ELSE IF ~InWalk(c.fs, Head(entries)) THEN copy_entries(c, Tail(entries))
    ELSE LET c1 == SysCall(c, TRUE, c.fs, Err("WalkDir", Head(entries)))
         IN  copy_entries(copy_single_static(c1, Head(entries)), Tail(entries))

\* fn copy_static(&self) -> Result<(), CopyStaticErr>
copy_static(c) ==
    IF c.err # NoErr THEN c
    ELSE IF ~exists(c.fs, opt.static_dir)
         THEN [c EXCEPT !.err = Err("WalkDir", opt.static_dir)]
         ELSE copy_entries(Enter(c, "copy_static", opt.static_dir), WalkOrder)

\* fn make_output_dir(&self) and fn make_output(output_dir: &Path)
make_output_dir(c) ==
    IF c.err # NoErr THEN c
    ELSE LET c1 == Enter(c, "make_output_dir", opt.output_dir)
         IN  IF ~exists(c1.fs, opt.output_dir)
             THEN SysCall(c1, CanCreateDirAll(c1.fs, opt.output_dir),
                          CreateDirAll(c1.fs, opt.output_dir),
                          Err("OutputFile", opt.output_dir))
             ELSE c1

\* markdown.rs, fn read(path): File::open and read_to_string
read(c, path) ==
    LET c1 == SysCall(c, is_file(c.fs, path), c.fs, Err("Read", path))
    IN  IF c1.err # NoErr THEN c1 ELSE [c1 EXCEPT !.ret = c1.fs[path].data]

\* a template the template engine rejects
BadTemplate == <<"{{#bad">>

\* markdown.rs, pub fn render(input_file, template): the rendered document
\* substituted into the template, or RenderError
markdown_render(c, input_file, template) ==
    IF c.err # NoErr THEN c
    ELSE LET c0 == Enter(c, "render", input_file)
             c1 == read(c0, input_file)
             c2 == read(c1, template)
         IN  IF c2.err # NoErr THEN c2
             ELSE IF c2.ret = BadTemplate
                  THEN [c2 EXCEPT !.err = Err("Render", template)]
                  ELSE [c2 EXCEPT !.ret = c2.ret \o c1.ret]

\* fn render_markdown_string(&self) -> Result<String, BuildErr>
render_markdown_string(c) == markdown_render(c, opt.input, opt.template)

write_markdown_file_append(c) ==
    IF c.err # NoErr THEN c
    ELSE LET res == render_markdown_string(c)
             output == output_file
             opened == SysCall(Enter(res, "File::create", output),
                               is_dir(res.fs, parent(output)) /\ ~is_dir(res.fs, output),
                               [res.fs EXCEPT ![output] = File(@.data)],
                               Err("OutputFile", output))
         IN  SysCall(opened, TRUE,
                     [opened.fs EXCEPT ![output] = File(@.data \o res.ret)],
                     Err("OutputWrite", output))

write_markdown_file_create_first(c) ==
    IF c.err # NoErr THEN c
    ELSE LET output == output_file
             created == SysCall(Enter(c, "File::create", output),
                                is_dir(c.fs, parent(output)) /\ ~is_dir(c.fs, output),
                                [c.fs EXCEPT ![output] = File(<<>>)],
                                Err("OutputFile", output))
             res == render_markdown_string(created)
         IN  SysCall(res, TRUE,
                     [res.fs EXCEPT ![output] = File(res.ret)],
                     Err("OutputWrite", output))

\* fn write_markdown_file(&self) -> Result<(), BuildErr>
write_markdown_file(c) ==
    IF c.err # NoErr THEN c
    ELSE LET res == render_markdown_string(c)
             output == output_file
             created == SysCall(Enter(res, "File::create", output),
                                is_dir(res.fs, parent(output)) /\ ~is_dir(res.fs, output),
                                [res.fs EXCEPT ![output] = File(<<>>)],
                                Err("OutputFile", output))
         IN  SysCall(created, TRUE,
                     [created.fs EXCEPT ![output] = File(res.ret)],
                     Err("OutputWrite", output))

Opt_render_write_first(c) == copy_static(write_markdown_file(make_output_dir(c)))

\* fn render(&self) -> Result<(), BuildErr>
Opt_render(c) == write_markdown_file(make_output_dir(copy_static(c)))

\* notify::DebouncedEvent: kind, path (from for Rename, <<>> for no path)
\* and to (Rename only)
Notification(kind, path, to) == [kind |-> kind, path |-> path, to |-> to]

\* the paths the three watches can report
WatchedPaths == { StaticImg, StaticPng, opt.input, opt.template, Notes }

Notifications ==
    { Notification(k, q, <<>>) : k \in {"Create", "Write", "Chmod"}, q \in WatchedPaths }
    \cup { Notification("Remove", StaticPng, <<>>),
           Notification("Rename", Notes, Deck),
           Notification("Rescan", <<>>, <<>>),
           Notification("Error", <<>>, <<>>),
           Notification("Error", StaticPng, <<>>),
           Notification("NoticeWrite", Deck, <<>>) }

on_create_write_rebuild(c, path) ==
    IF starts_with(path, opt.static_dir)
    THEN Opt_render(c)
    ELSE IF path = opt.input \/ path = opt.template
         THEN write_markdown_file(c)
         ELSE c

\* the arm DebouncedEvent::Create(path) | DebouncedEvent::Write(path)
on_create_write(c, path) ==
    IF starts_with(path, opt.static_dir)
    THEN copy_single_static(c, path)
    ELSE IF path = opt.input \/ path = opt.template
         THEN write_markdown_file(c)
         ELSE c

\* the arm DebouncedEvent::Chmod(path)
on_chmod(c, path) ==
    IF starts_with(path, opt.static_dir)
    THEN copy_single_static(c, path)
    ELSE write_markdown_file(c)

on_logged_rerender(c) == write_markdown_file(c)

\* the arms Remove, Rename, Rescan and `_`: a log line
on_logged(c) == c

on_error_logged(c, path) == c

\* the arm DebouncedEvent::Error(err, path): return Err(WatchErr::Notify(err, path))
on_error(c, path) == [c EXCEPT !.err = Err("Notify", path)]

\* The user's startup state, after main_inner has canonicalized the four
\* paths (so each exists): the static tree holds a directory, the template
\* is beside the document or among the static files, and the output
\* directory is empty or holds the output of an earlier run.
WatchInit ==
    /\ \E tmpl \in {TopTemplate, StaticTemplate} :
           /\ opt = [static_dir |-> StaticDir, template |-> tmpl,
                     input |-> Deck, output_dir |-> OutDir]
           /\ \E old \in {Absent, File(<<"stale">>)} :
                  fs = [q \in Paths |->
                          CASE q \in {StaticDir, StaticImg, OutDir} -> Dir
                            [] q = tmpl -> File(<<"t1">>)
                            [] q = Deck -> File(<<"d1">>)
                            [] q = Notes -> File(<<"n1">>)
                            [] q = <<"out", "index.html">> -> old
                            [] OTHER -> Absent]
    /\ pc = "start"
    /\ chan = <<>>
    /\ result = NoErr
    /\ lastKind = "none"
    /\ acts = <<>>

Finish_keep_going(c, kind, rest) ==
    /\ fs' = c.fs
    /\ acts' = c.log
    /\ lastKind' = kind
    /\ result' = c.err
    /\ pc' = "watching"
    /\ chan' = rest
    /\ UNCHANGED <<opt, segVars, loopVars>>

\* how a call inside Opt::watch ends: `?` returns the error from watch,
\* which drops the watcher and the channel
Finish(c, kind, rest) ==
    /\ fs' = c.fs
    /\ acts' = c.log
    /\ lastKind' = kind
    /\ result' = c.err
    /\ IF c.err = NoErr
       THEN pc' = "watching" /\ chan' = rest
       ELSE pc' = "stopped" /\ chan' = <<>>
    /\ UNCHANGED <<opt, segVars, loopVars>>

\* `self.render()?;` and the set-up of the watcher, before the loop
InitialBuild ==
    /\ pc = "start"
    /\ \E fault \in 0..Opt_render(Ctx(fs, 0)).n :
           Finish(Opt_render(Ctx(fs, fault)), "build", <<>>)

\* the watcher thread sends a debounced notification
Notify ==
    /\ pc = "watching"
    /\ Len(chan) < MaxQueue
    /\ \E ev \in Notifications : chan' = Append(chan, ev)
    /\ UNCHANGED <<opt, fs, pc, result, lastKind, acts, segVars, loopVars>>

\* the user edits the sources while the program runs
EnvEdit ==
    /\ pc # "stopped"
    /\ \/ fs' = [fs EXCEPT ![StaticPng] = IF @ = Absent THEN File(<<"png">>) ELSE Absent]
       \/ fs' = [fs EXCEPT ![opt.template] =
                    IF @ = File(BadTemplate) THEN File(<<"t1">>) ELSE File(BadTemplate)]
       \/ fs[opt.input] = File(<<"d1">>) /\ fs' = [fs EXCEPT ![opt.input] = File(<<"d2">>)]
    /\ UNCHANGED <<opt, pc, chan, result, lastKind, acts, segVars, loopVars>>

Receiving(kinds) ==
    /\ pc = "watching"
    /\ chan # <<>>
    /\ Head(chan).kind \in kinds

HandleCreateWrite ==
    /\ Receiving({"Create", "Write"})
    /\ \E fault \in 0..on_create_write(Ctx(fs, 0), Head(chan).path).n :
           Finish(on_create_write(Ctx(fs, fault), Head(chan).path),
                  Head(chan).kind, Tail(chan))

HandleChmod ==
    /\ Receiving({"Chmod"})
    /\ \E fault \in 0..on_chmod(Ctx(fs, 0), Head(chan).path).n :
           Finish(on_chmod(Ctx(fs, fault), Head(chan).path), "Chmod", Tail(chan))

HandleLogged ==
    /\ Receiving({"Remove", "Rename", "Rescan", "NoticeWrite"})
    /\ Finish(on_logged(Ctx(fs, 0)), Head(chan).kind, Tail(chan))

\* the arm DebouncedEvent::Error(err, path)
HandleError ==
    /\ Receiving({"Error"})
    /\ Finish(on_error(Ctx(fs, 0), Head(chan).path), "Error", Tail(chan))

\* `rx.recv()?` when the watcher thread has gone and nothing is queued
RecvDisconnected ==
    /\ pc = "watching"
    /\ chan = <<>>
    /\ pc' = "stopped"
    /\ result' = Err("Recv", <<>>)
    /\ UNCHANGED <<opt, fs, chan, lastKind, acts, segVars, loopVars>>

WatchNext ==
    \/ InitialBuild
    \/ Notify
    \/ EnvEdit
    \/ HandleCreateWrite
    \/ HandleChmod
    \/ HandleLogged
    \/ HandleError
    \/ RecvDisconnected

\* The user's startup state, with no Slideshow iterator running.
WatchStart ==
    /\ WatchInit
    /\ source = <<>>
    /\ parser = <<>>
    /\ next_events = <<>>
    /\ in_slide = FALSE
    /\ origin = <<>>
    /\ out = <<>>
    /\ outOrigin = <<>>
    /\ ended = TRUE
    /\ cur = <<>>
    /\ sent = <<>>
    /\ done = <<>>

WatchSpec == WatchStart /\ [][WatchNext]_vars

(***************************************************************************)
(* Part II, LoopSpec: the loop of Opt::watch with the receive and the arm   *)
(* as separate steps, and the watcher thread sending at any time            *)
(***************************************************************************)
\* one notification for each arm of the match
LoopNotifications ==
    { Notification("Write", Deck, <<>>),
      Notification("Create", StaticPng, <<>>),
      Notification("Chmod", Notes, <<>>),
      Notification("Remove", StaticPng, <<>>),
      Notification("Rescan", <<>>, <<>>),
      Notification("Error", <<>>, <<>>) }

recv_newest(q) == [event |-> q[Len(q)], rest |-> SubSeq(q, 1, Len(q) - 1)]

\* rx.recv() on a channel holding q: the oldest notification
recv(q) == [event |-> Head(q), rest |-> Tail(q)]

\* `match event { .. }`: the arm for the notification
match_event(c, event) ==
    CASE event.kind \in {"Create", "Write"} -> on_create_write(c, event.path)
      [] event.kind = "Chmod" -> on_chmod(c, event.path)
      [] event.kind = "Error" -> on_error(c, event.path)
      [] OTHER -> on_logged(c)

\* the watcher thread sends while the loop waits or works; the channel of
\* std::sync::mpsc::channel() has no capacity limit
LoopNotify ==
    /\ pc \in {"watching", "handling"}
    /\ Len(sent) < MaxSent
    /\ \E ev \in LoopNotifications :
           /\ chan' = Append(chan, ev)
           /\ sent' = Append(sent, ev)
    /\ UNCHANGED <<opt, fs, pc, result, lastKind, acts, cur, done, segVars>>

\* `rx.recv()?` returns a notification
LoopRecv ==
    /\ pc = "watching"
    /\ chan # <<>>
    /\ cur' = <<recv(chan).event>>
    /\ chan' = recv(chan).rest
    /\ pc' = "handling"
    /\ UNCHANGED <<opt, fs, result, lastKind, acts, sent, done, segVars>>

\* the arm for the received notification runs to its end
LoopRun ==
    /\ pc = "handling"
    /\ \E fault \in 0..match_event(Ctx(fs, 0), cur[1]).n :
           LET c == match_event(Ctx(fs, fault), cur[1])
           IN  /\ fs' = c.fs
               /\ acts' = c.log
               /\ result' = c.err
               /\ IF c.err = NoErr
                  THEN pc' = "watching" /\ chan' = chan
                  ELSE pc' = "stopped" /\ chan' = <<>>
    /\ lastKind' = cur[1].kind
    /\ done' = Append(done, cur[1])
    /\ cur' = <<>>
    /\ UNCHANGED <<opt, sent, segVars>>

LoopNext ==
    \/ InitialBuild
    \/ EnvEdit
    \/ LoopNotify
    \/ LoopRecv
    \/ LoopRun
    \/ RecvDisconnected

LoopSpec == WatchStart /\ [][LoopNext]_vars

(***************************************************************************)
(* Part I: the claims about the Slide Segmenter                            *)
(***************************************************************************)
IsRule(e) == e = Rule

NotRule(e) == e # Rule

\* the number of thematic breaks of the document
NumRules == Len(SelectSeq(source, IsRule))

\* what the specification says the output for input s is, after the first
\* slide-open marker: every Rule replaced in place by [close, open]
RECURSIVE Replaced(_)
Replaced(s) ==
    IF s = <<>> THEN <<>>
    ELSE (IF Head(s) = Rule THEN <<CloseMarker, OpenMarker>> ELSE <<Head(s)>>)
         \o Replaced(Tail(s))

\* positions of the output that hold a marker the Segmenter synthesized
Markers == { i \in 1..Len(out) : outOrigin[i] }

OpenMarkers == { i \in Markers : out[i] = OpenMarker }

CloseMarkers == { i \in Markers : out[i] = CloseMarker }

\* the output without the synthesized markers
RECURSIVE Forwarded(_, _)
Forwarded(o, og) ==
    IF o = <<>> THEN <<>>
    ELSE (IF Head(og) THEN <<>> ELSE <<Head(o)>>) \o Forwarded(Tail(o), Tail(og))

\* C1: the complete output is one slide-open marker followed by the input
\* with every thematic break replaced in place by [slide-close, slide-open]
\* and every other event kept at its position.
C1_OutputIsInputWithRulesReplaced ==
    ended => out = <<OpenMarker>> \o Replaced(source)

C1_Witness ==
    /\ ended
    /\ Len(source) = 3
    /\ source[2] = Rule
    /\ source[1] = Ev("Text", "a")
    /\ out = <<OpenMarker, Ev("Text", "a"), CloseMarker, OpenMarker, source[3]>>

\* C2: for an input with k thematic breaks, wherever they occur, the
\* complete output holds exactly k + 1 slide-open markers and exactly k
\* slide-close markers.
C2_MarkerCounts ==
    ended => /\ Cardinality(OpenMarkers) = NumRules + 1
             /\ Cardinality(CloseMarkers) = NumRules

C2_Witness ==
    /\ ended
    /\ Len(source) = 4
    /\ source[1] = Rule
    /\ source[2] = Rule
    /\ source[4] = Rule
    /\ Cardinality(OpenMarkers) = 4

\* C3: no thematic break is ever output, and the output without the
\* synthesized markers is the input without its thematic breaks: same
\* events, same order, none dropped, none duplicated.
C3_RulesConsumedOthersForwarded ==
    /\ \A i \in 1..Len(out) : out[i] # Rule
    /\ \A i \in 1..Len(next_events) : next_events[i] # Rule
    /\ ended => Forwarded(out, outOrigin) = SelectSeq(source, NotRule)

C3_Witness ==
    /\ ended
    /\ source = <<Ev("Text", "b"), Rule, OpenMarker, Ev("Text", "a")>>
    /\ Forwarded(out, outOrigin) = <<Ev("Text", "b"), OpenMarker, Ev("Text", "a")>>

\* C4 as stated: the length of the complete output is the length of the
\* input plus 2 x (number of slides).
C4_Original ==
    ended => Len(out) = Len(source) + 2 * Cardinality(OpenMarkers)

\* C4 as amended: the length of the complete output is the length of the
\* input plus the number of slides (thematic breaks + 1): each thematic break
\* is consumed and gives two markers, and the first slide's open marker is
\* the only other marker.
C4_LengthIsInputPlusSlides ==
    ended => /\ Cardinality(OpenMarkers) = NumRules + 1
             /\ Len(out) = Len(source) + Cardinality(OpenMarkers)

C4_Witness ==
    /\ ended
    /\ Len(source) = 4
    /\ NumRules = 2
    /\ Len(out) = 7

\* C5: no slide-close marker is emitted for the final slide: in the complete
\* output the last marker is a slide-open marker, also when the input ends
\* with a thematic break, and nothing is left queued at end-of-stream.
C5_FinalSlideNotClosed ==
    ended => /\ Markers # {}
             /\ \E m \in Markers :
                    /\ \A i \in Markers : i <= m
                    /\ out[m] = OpenMarker
             /\ next_events = <<>>

C5_Witness ==
    /\ ended
    /\ Len(source) = 2
    /\ source[2] = Rule
    /\ out[Len(out)] = OpenMarker
    /\ outOrigin[Len(out)]

\* C6: the first event output is always a slide-open marker, queued at
\* construction before any upstream event has been pulled; an input that
\* starts with a thematic break gives an output starting open, close, open.
C6_FirstEventIsOpenMarker ==
    /\ (out = <<>> /\ ~ended) =>
            /\ parser = source
            /\ next_events = <<OpenMarker>>
            /\ origin = <<TRUE>>
    /\ out # <<>> => (out[1] = OpenMarker /\ outOrigin[1])
    /\ ended => out # <<>>
    /\ (source # <<>> /\ source[1] = Rule /\ Len(out) >= 3) =>
            SubSeq(out, 1, 3) = <<OpenMarker, CloseMarker, OpenMarker>>

C6_Witness ==
    /\ source # <<>>
    /\ source[1] = Rule
    /\ out = <<OpenMarker, CloseMarker, OpenMarker>>
    /\ outOrigin = <<TRUE, TRUE, TRUE>>

\* everything queued or output so far, and the origin of each element
AllEvents == out \o next_events

AllOrigin == outOrigin \o origin

\* C18: in_slide is true whenever an upstream event is handed to transform
\* (in every state between two calls of next()), so a thematic break
\* always closes the slide before opening the next: every slide-open
\* marker but the first has a slide-close marker right before it.
C18_InSlideAlways ==
    /\ in_slide
    /\ \A i \in 1..Len(AllEvents) :
           (AllOrigin[i] /\ AllEvents[i] = OpenMarker /\ i > 1) =>
               (AllOrigin[i - 1] /\ AllEvents[i - 1] = CloseMarker)
    /\ \A i \in 1..Len(AllEvents) :
           (AllOrigin[i] /\ AllEvents[i] = CloseMarker) =>
               /\ i < Len(AllEvents)
               /\ AllOrigin[i + 1] /\ AllEvents[i + 1] = OpenMarker

C18_Witness ==
    /\ in_slide
    /\ source = <<Ev("Text", "a"), Rule, Rule>>
    /\ out = <<OpenMarker, Ev("Text", "a"), CloseMarker, OpenMarker, CloseMarker>>
    /\ next_events = <<OpenMarker>>

\* C19: pulling from the Segmenter again and again reaches end-of-stream,
\* and when end-of-stream is returned the pending-output queue is empty and
\* the upstream is exhausted: nothing queued is lost.
C19_EndsWithNothingQueued ==
    /\ <>ended
    /\ [](ended => (next_events = <<>> /\ parser = <<>>))

C19_Witness ==
    /\ ended
    /\ Len(source) = 4
    /\ source[4] = Rule
    /\ Len(out) >= 6
    /\ next_events = <<>>
    /\ parser = <<>>

\* C20: the pending-output queue never holds more than 2 events, also in
\* the middle of a call right after transform; the upstream is pulled only
\* when the queue is empty, and one call of next() pulls at most one
\* upstream event.
C20_QueueAtMostTwoOnePull ==
    [][ /\ Len(next_events) <= 2
        /\ Len(next_events') <= 2
        /\ next_events # <<>> => parser' = parser
        /\ parser' # parser =>
               /\ next_events = <<>>
               /\ parser' = Tail(parser)
               /\ LET t == transform([Self EXCEPT !.parser = Tail(@)], Head(parser))
                  IN  /\ Len(t.next_events) \in 1..2
                      /\ next_events' = Tail(t.next_events) ]_vars

C20_Witness ==
    /\ next_events = <<OpenMarker>>
    /\ origin = <<TRUE>>
    /\ Len(parser) < Len(source)
    /\ out # <<>>
    /\ out[Len(out)] = CloseMarker
    /\ outOrigin[Len(out)]

(***************************************************************************)
(* Part II: the claims about the Watch Driver                              *)
(***************************************************************************)
\* a step of the loop that received a notification and ran its arm
Handled == pc = "watching" /\ chan # <<>> /\ Len(chan') < Len(chan)

Ran(log, name) == \E i \in 1..Len(log) : log[i].op = name

\* C7 as stated: a routine I/O or render failure while handling a change
\* notification does not end the watch loop; the loop ends only on a
\* watch-mechanism error notification or a channel-receive failure.
C7_RoutineFailureKeepsWatching ==
    (pc = "stopped" /\ lastKind # "build") => result.kind \in {"Notify", "Recv"}

\* C8 as stated: a Chmod notification for p makes the Watch Driver do
\* exactly what a Create or Write notification for p makes it do.
C8_ChmodLikeCreateWrite ==
    [][ (Handled /\ Head(chan).kind = "Chmod") =>
            \E fault \in 0..on_create_write(Ctx(fs, 0), Head(chan).path).n :
                LET c == on_create_write(Ctx(fs, fault), Head(chan).path)
                IN  /\ fs' = c.fs
                    /\ acts' = c.log
                    /\ result' = c.err ]_vars

\* C9 as stated: a Create or Write notification for the document path or the
\* template path re-runs the Render Orchestrator and rewrites the output
\* file, and copies no static asset.
C9_SourceChangeRerenders ==
    [][ (/\ Handled
         /\ Head(chan).kind \in {"Create", "Write"}
         /\ Head(chan).path \in {opt.input, opt.template}) =>
            /\ Ran(acts', "render")
            /\ ~Ran(acts', "copy_single_static")
            /\ ~Ran(acts', "copy_static")
            /\ result' = NoErr =>
                   fs'[output_file] = File(fs[opt.template].data \o fs[opt.input].data) ]_vars

\* C10: a Create or Write notification for a path under the static-asset
\* root runs exactly one single-item copy of that path and nothing else: on
\* success the file is copied to (or the directory exists at) the same
\* relative path under the output root, no other entry changes (but for
\* missing parent directories of a created directory), there is no render
\* and the output file is not rewritten; a failed copy changes nothing.
C10_StaticChangeCopiesOneItem ==
    [][ (/\ Handled
         /\ Head(chan).kind \in {"Create", "Write"}
         /\ starts_with(Head(chan).path, opt.static_dir)) =>
            LET path == Head(chan).path
                dest == join(opt.output_dir, strip_prefix(path, opt.static_dir))
            IN  /\ acts' = <<Op("copy_single_static", path)>>
                /\ \A q \in Paths : ~starts_with(dest, q) => fs'[q] = fs[q]
                /\ \A q \in Paths : (starts_with(dest, q) /\ q # dest) =>
                       (fs'[q] = fs[q] \/ (is_dir(fs, path) /\ ~exists(fs, q) /\ fs'[q] = Dir))
                /\ fs'[output_file] = fs[output_file]
                /\ result' # NoErr => fs' = fs
                /\ result' = NoErr =>
                       IF is_dir(fs, path)
                       THEN exists(fs', dest) /\ (~exists(fs, dest) => fs'[dest] = Dir)
                       ELSE fs'[dest] = fs[path] /\ is_file(fs, path) ]_vars

C10_Witness ==
    /\ pc = "watching"
    /\ lastKind = "Create"
    /\ acts = <<Op("copy_single_static", StaticPng)>>
    /\ fs[StaticPng] = File(<<"png">>)
    /\ fs[<<"out", "img", "x.png">>] = File(<<"png">>)
    /\ fs[<<"out", "index.html">>] = File(<<"t1", "d1">>)

\* C11: Remove, Rename and Rescan notifications are not actioned: no copy,
\* no render, no write, the output tree and the output file unchanged, and
\* the driver still watching.
C11_RemoveRenameRescanNotActioned ==
    [][ (Handled /\ Head(chan).kind \in {"Remove", "Rename", "Rescan"}) =>
            /\ acts' = <<>>
            /\ fs' = fs
            /\ result' = NoErr
            /\ pc' = "watching"
            /\ chan' = Tail(chan) ]_vars

C11_Witness ==
    /\ pc = "watching"
    /\ lastKind = "Remove"
    /\ acts = <<>>
    /\ fs[StaticPng] = Absent
    /\ fs[<<"out", "img", "x.png">>] = File(<<"png">>)

\* C12: watch-mechanism errors are always fatal: an Error notification stops
\* the driver at once (no copy, no render) with an error carrying the
\* notification's path when it has one, a failed receive stops it with a
\* receive error, and once stopped no later notification is processed.
C12_WatcherErrorsFatal ==
    [][ /\ (Handled /\ Head(chan).kind = "Error") =>
               /\ pc' = "stopped"
               /\ result' = Err("Notify", Head(chan).path)
               /\ acts' = <<>>
               /\ fs' = fs
        /\ (pc = "watching" /\ chan = <<>> /\ pc' = "stopped") =>
               (result' = Err("Recv", <<>>) /\ fs' = fs)
        /\ pc = "stopped" => (pc' = "stopped" /\ fs' = fs /\ result' = result /\ chan' = chan) ]_vars

C12_Witness ==
    /\ pc = "stopped"
    /\ lastKind = "Error"
    /\ result = Err("Notify", StaticPng)
    /\ acts = <<>>

\* the initial build of Opt::watch, the one place a whole build runs
BuildStep == pc = "start" /\ pc' # "start"

\* the place of an operation in the order of a build
StepRank(name) ==
    CASE name = "copy_static" -> 0
      [] name = "copy_single_static" -> 1
      [] name = "make_output_dir" -> 2
      [] name = "render" -> 3
      [] name = "File::create" -> 4

\* the static entry `path` is in place under the output root of file system g
Mirrored(f, g, path) ==
    LET dest == join(opt.output_dir, strip_prefix(path, opt.static_dir))
    IN  IF is_dir(f, path) THEN exists(g, dest) ELSE g[dest] = f[path]

\* C13: one build copies the static tree, then ensures the output
\* directory, then renders, then creates and writes the output file; the
\* first failing step ends the build with its error and no later step
\* runs: after a copy failure there is no render and the output file is
\* untouched, and the entries copied before the failure stay in place.
C13_BuildOrderAndAbort ==
    [][ BuildStep =>
            LET log == acts'
                copyErr == result'.kind \in {"WalkDir", "Prefix", "Copy", "CreateDir"}
            IN  /\ log # <<>> /\ log[1].op = "copy_static"
                /\ \A i, j \in 1..Len(log) :
                       i < j => StepRank(log[i].op) <= StepRank(log[j].op)
                /\ (pc' = "watching") <=> (result' = NoErr)
                /\ result' = NoErr =>
                       /\ Ran(log, "make_output_dir") /\ Ran(log, "render")
                       /\ Ran(log, "File::create")
                       /\ \A q \in Paths : InWalk(fs, q) => Mirrored(fs, fs', q)
                       /\ fs'[output_file] = File(fs[opt.template].data \o fs[opt.input].data)
                /\ copyErr =>
                       /\ ~Ran(log, "make_output_dir") /\ ~Ran(log, "render")
                       /\ ~Ran(log, "File::create")
                       /\ fs'[output_file] = fs[output_file]
                       /\ \A i \in 1..(Len(log) - 1) :
                              log[i].op = "copy_single_static" => Mirrored(fs, fs', log[i].path)
                /\ result'.kind \in {"Read", "Render"} =>
                       /\ log[Len(log)].op = "render"
                       /\ fs'[output_file] = fs[output_file]
                /\ result'.kind \in {"OutputFile", "OutputWrite"} =>
                       log[Len(log)].op \in {"make_output_dir", "File::create"}
                /\ result'.kind \in {"none", "WalkDir", "Prefix", "Copy", "CreateDir",
                                     "Read", "Render", "OutputFile", "OutputWrite"} ]_vars

C13_Witness ==
    /\ pc = "stopped"
    /\ lastKind = "build"
    /\ result = Err("Copy", StaticPng)
    /\ acts[Len(acts)] = Op("copy_single_static", StaticPng)
    /\ fs[<<"out", "img">>] = Dir
    /\ fs[<<"out", "img", "x.png">>] = Absent
    /\ fs[<<"out", "index.html">>] = Absent

\* C14: a render returns a whole string or an error and writes nothing:
\* whenever the Render Orchestrator fails, in the build or in a re-render
\* the watch loop runs, the output file is neither created, truncated nor
\* modified.
C14_FailedRenderLeavesOutput ==
    [][ /\ \A fault \in 0..2 :
               render_markdown_string(Ctx(fs, fault)).fs = fs
        /\ (result = NoErr /\ result'.kind \in {"Read", "Render"}) =>
               /\ fs'[output_file] = fs[output_file]
               /\ acts'[Len(acts')].op = "render"
               /\ Handled => fs' = fs ]_vars

C14_Witness ==
    /\ pc = "stopped"
    /\ lastKind = "Write"
    /\ result = Err("Render", opt.template)
    /\ fs[opt.template] = File(BadTemplate)
    /\ fs[<<"out", "index.html">>] = File(<<"t1", "d1">>)

IsPrefix(s, t) == Len(s) <= Len(t) /\ SubSeq(t, 1, Len(s)) = s

\* C15: with the watcher sending at any time, the Watch Driver handles the
\* notifications one at a time in the order they were sent: at most one is
\* being handled, the next is received only when the arm of the one before
\* has run to its end, and none is skipped or reordered.
C15_OneAtATimeInOrder ==
    /\ Len(cur) <= 1
    /\ (pc = "handling") <=> (cur # <<>>)
    /\ pc \in {"watching", "handling"} => done \o cur \o chan = sent
    /\ IsPrefix(done, sent)

C15_Witness ==
    /\ pc = "handling"
    /\ done = <<Notification("Write", Deck, <<>>)>>
    /\ cur = <<Notification("Create", StaticPng, <<>>)>>
    /\ chan = <<Notification("Chmod", Notes, <<>>)>>

\* C16: the driver starts watching only after one eager full build (full
\* static copy, render, output write) has completed: nothing is sent or
\* processed before it ends, no later step runs a full build, and a failed
\* initial build ends Opt::watch with its error before any notification.
C16_WatchingAfterOneFullBuild ==
    [][ /\ pc = "start" => (chan = <<>> /\ lastKind = "none" /\ acts = <<>>)
        /\ (pc # "watching" /\ pc' = "watching") =>
               /\ pc = "start"
               /\ lastKind' = "build"
               /\ result' = NoErr
               /\ Ran(acts', "copy_static") /\ Ran(acts', "render")
               /\ Ran(acts', "File::create")
               /\ fs'[output_file] = File(fs[opt.template].data \o fs[opt.input].data)
        /\ (pc = "start" /\ pc' # "start" /\ result' # NoErr) =>
               (pc' = "stopped" /\ lastKind' = "build" /\ chan' = <<>>)
        /\ (pc # "start" /\ acts' # acts) => ~Ran(acts', "copy_static")
        /\ pc = "stopped" => (lastKind' = lastKind /\ acts' = acts) ]_vars

C16_Witness ==
    /\ pc = "watching"
    /\ lastKind = "build"
    /\ chan # <<>>
    /\ Ran(acts, "copy_static")
    /\ fs[<<"out", "index.html">>] = File(<<"t1", "d1">>)
    /\ fs[<<"out", "img">>] = Dir

\* C17: a build run again with unchanged document, template and static
\* tree leaves the output file and the mirrored static tree as the first
\* run left them, and the output file holds the new rendering alone,
\* whatever it held before.
C17_BuildIdempotent ==
    [][ (BuildStep /\ result' = NoErr) =>
            LET again == Opt_render(Ctx(fs', 0))
            IN  /\ again.err = NoErr
                /\ again.fs = fs'
                /\ again.log = acts'
                /\ fs'[output_file] = File(fs[opt.template].data \o fs[opt.input].data) ]_vars

C17_Witness ==
    /\ pc = "watching"
    /\ lastKind = "build"
    /\ chan = <<>>
    /\ fs[opt.input] = File(<<"d2">>)
    /\ fs[<<"out", "index.html">>] = File(<<"t1", "d2">>)
    /\ fs[<<"out", "img", "x.png">>] = File(<<"png">>)
    /\ Opt_render(Ctx(fs, 0)).fs = fs

====
